---- MODULE Spec2Model ----
(***************************************************************************)
(* Model of the Solana indexer of src/src/index.ts (class SolanaIndexer)   *)
(* and of the log sink of src/unnamed/part_000 (class Logger).             *)
(*                                                                         *)
(* Spec      the whole process: start(), testConnection(), the backfill    *)
(*           (processHistoricalBlocks), the live tail (subscribeToBlocks)  *)
(*           and every processNewSlot() call they make, over a chain whose *)
(*           head moves while the process runs.                            *)
(* SlotSpec  the same process started at the chain head, so that the       *)
(*           backfill is one slot long and the block source may fail every *)
(*           fetch of a slot.                                              *)
(* TxSpec    the per-transaction pipeline of processNewSlot (filter,       *)
(*           decode, classify, balance diff, log) applied to one           *)
(*           transaction drawn from a bounded set.                         *)
(***************************************************************************)
EXTENDS Integers, Sequences, FiniteSets, TLC

VARIABLES
    debug,            \* this.debug / process.env.DEBUG === 'true'
    watchedPrograms,  \* this.watchedPrograms (WATCH_PROGRAM_IDS)
    watchProgramId,   \* process.env.WATCH_PROGRAM_ID
    startSlot,        \* this.startSlot = this.currentSlot
    blockRecords,     \* per slot: what one pass over its block's transactions appends
    chainSlot,        \* head of the chain (what connection.getSlot() answers)
    faultsLeft,       \* how many more calls the RPC node may start to fail; negative: any
    pc,               \* where start() / processHistoricalBlocks() stands
    attempts,         \* currentAttempt of retry.operation
    exitCode,         \* -1 while running, else the code of process.exit
    bfRuns,           \* how often processHistoricalBlocks() was entered
    latestSlot,       \* const latestSlot of processHistoricalBlocks, -1 before
    currentSlot,      \* loop variable currentSlot of processHistoricalBlocks
    progress,         \* the progress reports printed so far
    subscribed,       \* the onSlotChange listener is registered
    slotUpdateSub,    \* the onSlotUpdate listener of debug mode is registered
    healthTimer,      \* this.healthCheckInterval is armed
    sigintHandler,    \* the SIGINT handler is registered
    newestNotified,   \* newest slot delivered to the onSlotChange callback
    task,             \* per slot: the processNewSlot() call for it
    bfCalls,          \* per slot: processNewSlot calls made by the backfill
    liveCalls,        \* per slot: processNewSlot calls made by the live tail
    logs,             \* per slot: records appended per log category
    errLog,           \* per slot: console.error lines about the slot
    probeFailed,      \* the liveness probe has logged a failure
    bfResult,         \* how processHistoricalBlocks() ended: completed / caught
    tx,               \* TxSpec: the transaction under processing
    txOut             \* TxSpec: what processing it emitted

vars == << debug, watchedPrograms, watchProgramId, startSlot, blockRecords, chainSlot,
           faultsLeft, pc, attempts, exitCode, bfRuns, latestSlot,
           currentSlot, progress, subscribed, slotUpdateSub, healthTimer, sigintHandler,
           newestNotified, task, bfCalls, liveCalls, logs, errLog,
           probeFailed, bfResult, tx, txOut >>

(***************************************************************************)
(* Bounds of the model.                                                    *)
(***************************************************************************)
MaxSlot == 6          \* the chain head never passes this slot
MaxFaults == 1        \* Spec: requests the RPC node may fail in a run
MaxIx == 2            \* TxSpec: instructions per transaction
MaxEntries == 3       \* DiffSpec: entries of a pre or post balance set
MaxTxs == 2           \* IsolationSpec: transactions of a block
MaxRange == 104       \* ProgressSpec: latestSlot - startSlot of a backfill

(***************************************************************************)
(* Program constants.                                                      *)
(***************************************************************************)
BATCH_SIZE == 5
maxRetries == 3
baseDelay == 1000
retries == 5
PROGRESS_EVERY == 100
DISCRIMINATOR_BYTES == 8

Slots == 0..MaxSlot
Min(a, b) == IF a <= b THEN a ELSE b

(***************************************************************************)
(* Optional values.  JavaScript's undefined / null is a sentinel of the    *)
(* same shape as the value it stands for.                                  *)
(***************************************************************************)
NoIndex == -1                 \* ix.programIdIndex === undefined
NoData == << -1 >>            \* !ix.data
BadData == << -2 >>           \* ix.data is set, but nothing Buffer.from() accepts
NoAccounts == << -1 >>        \* !ix.accountKeyIndexes
NoKey == ""                   \* accountKeys.get(i) === undefined
NoType == ""                  \* instruction.type === undefined
NoBalances == << [mint |-> "", amount |-> -1, decimals |-> -1] >>

(***************************************************************************)
(* Buffer / hex conversions (Buffer.from(x).toString('hex') and            *)
(* Buffer.from(h, 'hex')).  A hex string is a sequence of its characters.  *)
(***************************************************************************)
HexDigit == << "0", "1", "2", "3", "4", "5", "6", "7",
               "8", "9", "a", "b", "c", "d", "e", "f" >>

RECURSIVE ToHex(_)
ToHex(bytes) ==
    IF bytes = << >> THEN << >>
    ELSE << HexDigit[(Head(bytes) \div 16) + 1], HexDigit[(Head(bytes) % 16) + 1] >>
         \o ToHex(Tail(bytes))

HexValue(c) == CHOOSE i \in 0..15 : HexDigit[i + 1] = c

RECURSIVE FromHex(_)
FromHex(h) ==
    IF Len(h) < 2 THEN << >>
    ELSE << HexValue(h[1]) * 16 + HexValue(h[2]) >> \o FromHex(SubSeq(h, 3, Len(h)))

BufferSlice(buf, from, to) == SubSeq(buf, from + 1, Min(to, Len(buf)))

(***************************************************************************)
(* The discriminator table and its lookup.                                 *)
(***************************************************************************)
RAYDIUM_INSTRUCTION_TYPES ==
    { [key |-> <<"8","f","b","e","5","a","d","a","c","4","1","e","3","3","d","e">>,
       name |-> "swap"],
      [key |-> <<"4","5","3","7","3","3","6","6","5","8","4","8","5","0">>,
       name |-> "swap"],
      [key |-> <<"e","9","3","3","7","f","0","1","2","d","7","0","c","0","f","0">>,
       name |-> "swap"],
      [key |-> <<"f","4","c","0","6","9","a","1","b","5","f","2","3","3","b","c">>,
       name |-> "addLiquidity"],
      [key |-> <<"4","a","1","c","3","d","f","8","f","a","7","8","1","5","3","9">>,
       name |-> "removeLiquidity"],
      [key |-> <<"0","b","0","5","a","0","b","3","9","c","3","c","d","8","e","a">>,
       name |-> "createPool"],
      [key |-> <<"d","4","c","6","9","1","1","9","d","8","e","a","3","0","8","8">>,
       name |-> "closePosition"],
      [key |-> <<"b","4","c","7","6","6","0","4","d","7","2","c","5","8","c","2">>,
       name |-> "openPosition"],
      [key |-> <<"c","d","3","5","e","4","f","3","5","f","4","5","a","8","4","5">>,
       name |-> "increaseLiquidity"],
      [key |-> <<"b","1","1","9","a","7","e","3","d","6","c","6","c","2","e","3">>,
       name |-> "decreaseLiquidity"] }

\* The lookup of the legacy JavaScript variant (its own three-entry table).
getRaydiumInstructionType_Legacy(discriminator) ==
    IF discriminator = ToHex(<< 11, 5, 160, 179, 156, 60, 216, 234 >>) THEN "swap"
    ELSE IF discriminator = ToHex(<< 244, 192, 105, 161, 181, 242, 51, 188 >>) THEN "addLiquidity"
    ELSE IF discriminator = ToHex(<< 74, 28, 61, 248, 250, 120, 21, 57 >>) THEN "removeLiquidity"
    ELSE "unknown"
getRaydiumInstructionType(discriminator) ==
    IF \E e \in RAYDIUM_INSTRUCTION_TYPES : e.key = discriminator
    THEN (CHOOSE e \in RAYDIUM_INSTRUCTION_TYPES : e.key = discriminator).name
    ELSE "unknown"

(***************************************************************************)
(* Instruction decoding (processNewSlot, the instruction loop).            *)
(***************************************************************************)
AccountKeysGet(keys, i) == IF i \in 0..(Len(keys) - 1) THEN keys[i + 1] ELSE NoKey

RECURSIVE ResolveAccounts(_, _)
ResolveAccounts(idxs, keys) ==
    IF idxs = << >> THEN << >>
    ELSE LET a == AccountKeysGet(keys, Head(idxs))
         IN  (IF a = NoKey THEN << >> ELSE << a >>) \o ResolveAccounts(Tail(idxs), keys)

\* The instructions the loop skips with `continue` before building anything.
IxSkipped(ix, keys) ==
    \/ ix.programIdIndex = NoIndex
    \/ ix.accountKeyIndexes = NoAccounts
    \/ ix.data = NoData
    \/ AccountKeysGet(keys, ix.programIdIndex) = NoKey

\* Building the Instruction throws inside the try of the instruction loop.
IxThrows(ix) == ix.data = BadData

\* The decode without the test of dataBuffer.length.
DecodeInstruction_NoLengthTest(ix, keys, cfg) ==
    LET programId == AccountKeysGet(keys, ix.programIdIndex)
        data == ToHex(ix.data)
        classified == programId = cfg.watchProgramId /\ data # << >>
        discriminator == SubSeq(data, 1, Min(Len(data), 2 * DISCRIMINATOR_BYTES))
    IN  [ programId |-> programId,
          accounts |-> ResolveAccounts(ix.accountKeyIndexes, keys),
          data |-> data,
          type |-> IF classified THEN getRaydiumInstructionType(discriminator) ELSE NoType,
          discriminator |-> IF classified THEN discriminator ELSE << >> ]
\* A decode that keeps state between calls: it resolves the operation type
\* only in the first pass over a transaction.
DecodeInstruction_TypedOnce(ix, keys, cfg) ==
    LET programId == AccountKeysGet(keys, ix.programIdIndex)
        data == ToHex(ix.data)
        dataBuffer == FromHex(data)
        classified == /\ ~txOut.done
                      /\ programId = cfg.watchProgramId
                      /\ data # << >>
                      /\ Len(dataBuffer) >= DISCRIMINATOR_BYTES
        discriminator == ToHex(BufferSlice(dataBuffer, 0, DISCRIMINATOR_BYTES))
    IN  [ programId |-> programId,
          accounts |-> ResolveAccounts(ix.accountKeyIndexes, keys),
          data |-> data,
          type |-> IF classified THEN getRaydiumInstructionType(discriminator) ELSE NoType,
          discriminator |-> IF classified THEN discriminator ELSE << >> ]
\* cfg is the configuration read at startup: debug, watchedPrograms, watchProgramId.
DecodeInstruction(ix, keys, cfg) ==
    LET programId == AccountKeysGet(keys, ix.programIdIndex)
        data == ToHex(ix.data)
        dataBuffer == FromHex(data)
        classified == /\ programId = cfg.watchProgramId
                      /\ data # << >>
                      /\ Len(dataBuffer) >= DISCRIMINATOR_BYTES
        discriminator == ToHex(BufferSlice(dataBuffer, 0, DISCRIMINATOR_BYTES))
    IN  [ programId |-> programId,
          accounts |-> ResolveAccounts(ix.accountKeyIndexes, keys),
          data |-> data,
          type |-> IF classified THEN getRaydiumInstructionType(discriminator) ELSE NoType,
          discriminator |-> IF classified THEN discriminator ELSE << >> ]

RECURSIVE DecodeAll(_, _, _)
DecodeAll(ixs, keys, cfg) ==
    IF ixs = << >> THEN << >>
    ELSE (IF IxSkipped(Head(ixs), keys) THEN << >>
          ELSE IF IxThrows(Head(ixs)) THEN << >>          \* catch: continue
          ELSE << DecodeInstruction(Head(ixs), keys, cfg) >>)
         \o DecodeAll(Tail(ixs), keys, cfg)

(***************************************************************************)
(* Transaction filter (programIds / relevantPrograms).                     *)
(***************************************************************************)
ProgramIds(ixs, keys) ==
    { AccountKeysGet(keys, ixs[i].programIdIndex) :
        i \in { j \in 1..Len(ixs) :
                  /\ ixs[j].programIdIndex # NoIndex
                  /\ AccountKeysGet(keys, ixs[j].programIdIndex) # NoKey } }

\* relevantPrograms without the filter on the watched programs.
RelevantPrograms_Unfiltered(ixs, keys, cfg) == ProgramIds(ixs, keys)
RelevantPrograms(ixs, keys, cfg) ==
    IF cfg.watchedPrograms = {} THEN ProgramIds(ixs, keys)
    ELSE { p \in ProgramIds(ixs, keys) : p \in cfg.watchedPrograms }

(***************************************************************************)
(* parseSwapInstruction: the balance diff.  balanceChanges is a Map, kept  *)
(* here as the sequence of its entries in insertion order.                 *)
(***************************************************************************)
NoSwap == [type |-> "none"]
Abs(x) == IF x < 0 THEN -x ELSE x

MapHas(m, mint) == \E i \in 1..Len(m) : m[i].mint = mint
MapIndex(m, mint) == CHOOSE i \in 1..Len(m) : m[i].mint = mint
\* balanceChanges kept as a list: every set() adds an entry.
MapSet_Append(m, e) == Append(m, e)
MapSet(m, e) ==
    IF MapHas(m, e.mint) THEN [m EXCEPT ![MapIndex(m, e.mint)] = e] ELSE Append(m, e)

\* preBalances.forEach(pre => balanceChanges.set(pre.mint, {.. change: -amount}))
RECURSIVE SeedPre(_, _)
SeedPre(pre, m) ==
    IF pre = << >> THEN m
    ELSE SeedPre(Tail(pre),
                 MapSet(m, [mint |-> Head(pre).mint, decimals |-> Head(pre).decimals,
                            change |-> -Head(pre).amount]))

\* postBalances.forEach(post => existing ? existing.change += amount : set(..))
RECURSIVE AddPost(_, _)
AddPost(post, m) ==
    IF post = << >> THEN m
    ELSE LET p == Head(post)
         IN  AddPost(Tail(post),
                 IF MapHas(m, p.mint)
                 THEN [m EXCEPT ![MapIndex(m, p.mint)].change = @ + p.amount]
                 ELSE Append(m, [mint |-> p.mint, decimals |-> p.decimals,
                                 change |-> p.amount]))

BalanceChanges(pre, post) == AddPost(post, SeedPre(pre, << >>))

\* changes.sort((a, b) => a.change - b.change): ascending and stable.
RECURSIVE InsertSorted(_, _)
InsertSorted(sorted, x) ==
    IF sorted = << >> THEN << x >>
    ELSE IF Head(sorted).change <= x.change
         THEN << Head(sorted) >> \o InsertSorted(Tail(sorted), x)
         ELSE << x >> \o sorted

RECURSIVE SortByChange(_, _)
SortByChange(todo, sorted) ==
    IF todo = << >> THEN sorted
    ELSE SortByChange(Tail(todo), InsertSorted(sorted, Head(todo)))

RECURSIVE Pow10(_)
Pow10(n) == IF n = 0 THEN 1 ELSE 10 * Pow10(n - 1)

\* Number((amount / 10^decimals).toFixed(4)), in units of 1/10000: the nearest
\* multiple of 0.0001, the sign set aside (toFixed formats -x as "-" and x).
\* An exact half goes up here; toFixed decides it by the binary value of the
\* quotient, and no amount of the samples sits on one.
FormatMagnitude(amount, decimals) ==
    IF decimals >= 4
    THEN LET unit == Pow10(decimals - 4)
         IN  (amount \div unit) + (IF 2 * (amount % unit) >= unit THEN 1 ELSE 0)
    ELSE amount * Pow10(4 - decimals)

\* Every amount scaled by the 9 decimals of SOL instead of its asset's own.
formatTokenAmount_SolDecimals(amount, decimals) ==
    IF amount < 0 THEN -FormatMagnitude(-amount, 9) ELSE FormatMagnitude(amount, 9)
formatTokenAmount(amount, decimals) ==
    IF amount < 0 THEN -FormatMagnitude(-amount, decimals)
    ELSE FormatMagnitude(amount, decimals)

parseSwapInstruction(pre, post) ==
    IF pre = NoBalances \/ post = NoBalances THEN NoSwap
    ELSE LET nonzero == SelectSeq(BalanceChanges(pre, post), LAMBDA c : Abs(c.change) > 0)
             changes == SortByChange(nonzero, << >>)
             first == changes[1]
             last == changes[Len(changes)]
         IN  IF Len(nonzero) >= 2
             THEN [ type |-> "swap",
                    inputTransfer |->
                        [ token |-> first.mint,
                          amount |-> formatTokenAmount(Abs(first.change), first.decimals),
                          decimals |-> first.decimals ],
                    outputTransfer |->
                        [ token |-> last.mint,
                          amount |-> formatTokenAmount(last.change, last.decimals),
                          decimals |-> last.decimals ] ]
             ELSE NoSwap

(***************************************************************************)
(* The log sink (class Logger): how many records a call appends.           *)
(***************************************************************************)
Categories == { "transaction", "instruction", "swap", "balance", "debug" }
ZeroLog == [ transaction |-> 0, instruction |-> 0, swap |-> 0, balance |-> 0, debug |-> 0 ]
AddLog(a, b) == [ c \in Categories |-> a[c] + b[c] ]

logTransaction == 1
logInstruction(ins) == IF ins.type = "swap" THEN 1 ELSE 0
logDebug(cfg) == IF cfg.debug THEN 1 ELSE 0
logSwap == 1
\* data.pre.map / data.post.map throw on an absent set; the transaction's catch
\* swallows the TypeError and nothing is appended.
logTokenBalances(pre, post) == IF pre = NoBalances \/ post = NoBalances THEN 0 ELSE 1

(***************************************************************************)
(* One iteration of the transaction loop of processNewSlot.                *)
(***************************************************************************)
\* programs is txInfo.programs: empty when no txInfo is built.
NothingEmitted == [ programs |-> {}, records |-> ZeroLog, decoded |-> << >>, swaps |-> << >> ]

\* if (!tx.meta) continue;  -- without the test of meta.err
TxSucceeded_MetaPresent(t) == t.meta # "missing"
\* if (!tx.meta || tx.meta.err) continue;
TxSucceeded(t) == t.meta = "ok"
\* message.getAccountKeys() throws: the address table lookups of a versioned
\* message are not resolved.
TxThrows(t) == t.shape = "unresolved"

RECURSIVE SumInstructionRecords(_)
SumInstructionRecords(instructions) ==
    IF instructions = << >> THEN 0
    ELSE logInstruction(Head(instructions)) + SumInstructionRecords(Tail(instructions))

ProcessTx(t, cfg) ==
    IF ~TxSucceeded(t) THEN NothingEmitted
    ELSE IF t.shape = "noMessage" THEN NothingEmitted
    ELSE IF TxThrows(t) THEN NothingEmitted               \* catch: continue
    ELSE IF t.shape # "full" THEN NothingEmitted
    ELSE IF RelevantPrograms(t.ixs, t.keys, cfg) = {} THEN NothingEmitted
    ELSE LET instructions == DecodeAll(t.ixs, t.keys, cfg)
             swapIns == SelectSeq(instructions, LAMBDA i : i.type = "swap")
             details == parseSwapInstruction(t.pre, t.post)
             perIx == IF instructions = << >> THEN ZeroLog
                      ELSE [ transaction |-> logTransaction,
                             instruction |-> SumInstructionRecords(instructions),
                             swap |-> IF details = NoSwap THEN 0
                                      ELSE Len(swapIns) * logSwap,
                             balance |-> 0,
                             debug |-> Len(swapIns) * logDebug(cfg) ]
             bal == IF t.pre # NoBalances \/ t.post # NoBalances
                    THEN logTokenBalances(t.pre, t.post) ELSE 0
         IN  [ programs |-> RelevantPrograms(t.ixs, t.keys, cfg),
               records |-> [perIx EXCEPT !.balance = bal],
               decoded |-> instructions,
               swaps |-> IF details = NoSwap THEN << >>
                         ELSE [ i \in 1..Len(swapIns) |-> details ] ]

\* One iteration of the transaction loop without its try/catch.
TxIteration_NoCatch(t, cfg) ==
    [ out |-> ProcessTx(t, cfg), thrown |-> TxSucceeded(t) /\ TxThrows(t) ]
\* One iteration of the transaction loop: what it emits, and whether an
\* error leaves it; the catch at the end of the body ends every error.
TxIteration(t, cfg) == [ out |-> ProcessTx(t, cfg), thrown |-> FALSE ]

RECURSIVE ProcessBlock(_, _)
ProcessBlock(txs, cfg) ==
    IF txs = << >> THEN ZeroLog
    ELSE AddLog(ProcessTx(Head(txs), cfg).records, ProcessBlock(Tail(txs), cfg))

(***************************************************************************)
(* Sample chain data: an account table, raw instructions, balance sets,    *)
(* transactions and the block each slot holds.                             *)
(***************************************************************************)
RaydiumProgram == "CPMDWBwJDtYax9qW7AyRuVC19Cc4L4Vcy4n2BHAbHkCW"
TokenProgram == "TokenkegQfeZyiNwAJbNbGKPFXCWuBvf9Ss623VQ5DA"
UserAccount == "User1111111111111111111111111111111111111111"
SolMint == "So11111111111111111111111111111111111111112"
UsdcMint == "EPjFWdd5AufqSSqeM2qN1xzybapC8G4wEGGkZwyTDt1v"

Keys == << RaydiumProgram, TokenProgram, UserAccount >>

SwapIx == [ programIdIndex |-> 0, accountKeyIndexes |-> << 2, 1 >>,
            data |-> << 143, 190, 90, 218, 196, 30, 51, 222, 1 >> ]
CreatePoolIx == [ programIdIndex |-> 0, accountKeyIndexes |-> << 2 >>,
                  data |-> << 11, 5, 160, 179, 156, 60, 216, 234 >> ]
ShortIx == [ programIdIndex |-> 0, accountKeyIndexes |-> << 2 >>,
             data |-> << 143, 190, 90 >> ]
TokenIx == [ programIdIndex |-> 1, accountKeyIndexes |-> << 2, 9 >>,
             data |-> << 1, 2, 3, 4, 5, 6, 7, 8 >> ]
BadProgramIx == [ programIdIndex |-> 7, accountKeyIndexes |-> << 2 >>,
                  data |-> << 143, 190, 90, 218, 196, 30, 51, 222 >> ]
NoDataIx == [ programIdIndex |-> 0, accountKeyIndexes |-> << 2 >>, data |-> NoData ]

IxSamples == { SwapIx, CreatePoolIx, ShortIx, TokenIx, BadProgramIx, NoDataIx }
IxSeqs == UNION { [ 1..n -> IxSamples ] : n \in 0..MaxIx }

SwapPre == << [mint |-> SolMint, amount |-> 100000, decimals |-> 5] >>
SwapPost == << [mint |-> SolMint, amount |-> 93743, decimals |-> 5],
               [mint |-> UsdcMint, amount |-> 78957, decimals |-> 6] >>
BalanceSamples == { << NoBalances, NoBalances >>, << SwapPre, NoBalances >>,
                    << SwapPre, SwapPost >>, << SwapPre, SwapPre >> }

TxInputs ==
    { [ meta |-> m, shape |-> sh, keys |-> Keys, ixs |-> ixs, pre |-> b[1], post |-> b[2] ] :
        m \in { "ok", "err", "missing" }, sh \in { "full", "noMessage", "incomplete" },
        ixs \in IxSeqs, b \in BalanceSamples }

MakeTx(meta, ixs, pre, post) ==
    [ meta |-> meta, shape |-> "full", keys |-> Keys, ixs |-> ixs, pre |-> pre, post |-> post ]

SwapTx == MakeTx("ok", << SwapIx, TokenIx >>, SwapPre, SwapPost)
FailedSwapTx == MakeTx("err", << SwapIx >>, SwapPre, SwapPost)
NoMetaTx == MakeTx("missing", << SwapIx >>, NoBalances, NoBalances)
CreatePoolTx == MakeTx("ok", << CreatePoolIx >>, NoBalances, NoBalances)

Blocks == << << SwapTx, FailedSwapTx >>, << FailedSwapTx, NoMetaTx >>, << CreatePoolTx >> >>
BlockAt(slot) == Blocks[(slot % Len(Blocks)) + 1]

\* The configurations of the model and the one in force.
Configs == [ debug : BOOLEAN,
             watchedPrograms : { {}, { RaydiumProgram }, { TokenProgram } },
             watchProgramId : { RaydiumProgram, NoKey } ]
Config == [ debug |-> debug, watchedPrograms |-> watchedPrograms,
            watchProgramId |-> watchProgramId ]

\* The records one pass of the transaction loop appends for each slot's block.
BlockRecords(cfg) == [ s \in Slots |-> ProcessBlock(BlockAt(s), cfg) ]

(***************************************************************************)
(* processNewSlot: one call per slot, its position in the retry loop.      *)
(***************************************************************************)
NoTask == [ pc |-> "none", origin |-> "none", attempt |-> 0, fetches |-> 0,
            processed |-> 0, rateLimits |-> 0, outcome |-> "none" ]

\* The call runs synchronously up to its first await: the first getBlock is issued.
NewTask(origin) == [ pc |-> "fetching", origin |-> origin, attempt |-> 0, fetches |-> 1,
                     processed |-> 0, rateLimits |-> 0, outcome |-> "none" ]

InFlight(t) == t.pc \in { "fetching", "backoff" }
Settled(t) == t.pc \in { "resolved", "rejected" }

\* What a getBlock failure's message contains.
Errors == [ has429 : BOOLEAN, hasNotAvailable : BOOLEAN ]
IsRateLimit(e) == e.has429                   \* error.message.includes('429')
IsNotAvailable(e) == e.hasNotAvailable       \* includes('Block not available')

\* attempt++ of the for loop: the next getBlock, or the end of the function.
NextAttempt(t) ==
    IF t.attempt + 1 < maxRetries
    THEN [ t EXCEPT !.attempt = @ + 1, !.pc = "fetching", !.fetches = @ + 1 ]
    ELSE [ t EXCEPT !.attempt = @ + 1, !.pc = "resolved", !.outcome = "loopEnded" ]

\* The try body ran to its end over the block's transactions.
AfterBlock(t) == NextAttempt([ t EXCEPT !.processed = @ + 1 ])

\* if (!block) continue;  -- instead of return
AfterNull_Continue(t) == NextAttempt([ t EXCEPT !.outcome = "absent" ])
\* if (!block) return;
AfterNull(t) == [ t EXCEPT !.pc = "resolved", !.outcome = "absent" ]

\* catch: the rate-limit branch waits baseDelay * 2^attempt and continues.
BackoffDelay(t) == baseDelay * (2 ^ t.attempt)
AfterRateLimit(t) == [ t EXCEPT !.pc = "backoff", !.rateLimits = @ + 1 ]

\* catch: every other error is retried like a rate limit, without a wait.
AfterThrow_Retried(t, e) ==
    NextAttempt([ t EXCEPT !.outcome = IF IsNotAvailable(e) THEN "notAvailable"
                                       ELSE "error" ])
\* catch: every other error is rethrown.
AfterThrow(t, e) ==
    [ t EXCEPT !.pc = "rejected",
               !.outcome = IF IsNotAvailable(e) THEN "notAvailable" ELSE "error" ]

\* A catch that tests 'Block not available' before '429'.
Catch_NotAvailableFirst(t, e) ==
    IF IsNotAvailable(e) THEN AfterThrow(t, e)
    ELSE IF IsRateLimit(e) THEN AfterRateLimit(t)
    ELSE AfterThrow(t, e)
\* The catch of processNewSlot: the test for '429' comes first.
Catch(t, e) == IF IsRateLimit(e) THEN AfterRateLimit(t) ELSE AfterThrow(t, e)

\* console.error of processNewSlot's catch.
SlotErrorLines(e) == IF ~IsNotAvailable(e) THEN 1 ELSE 0

\* console.error of the caller's .catch(): the backfill's and the live tail's.
CallerErrorLines(origin, e) ==
    IF origin = "backfill" THEN (IF ~IsNotAvailable(e) THEN 1 ELSE 0) ELSE 1

\* The error lines a failed fetch adds: none on the rate-limit branch.
CatchErrorLines(t, e) ==
    IF IsRateLimit(e) THEN 0
    ELSE SlotErrorLines(e) + CallerErrorLines(t.origin, e)

(***************************************************************************)
(* processHistoricalBlocks: batches and what it awaits.                    *)
(***************************************************************************)
BatchEnd(cur, latest) == Min(cur + BATCH_SIZE - 1, latest)
BatchSlots(cur, latest) == cur..BatchEnd(cur, latest)
\* currentSlot += BATCH_SIZE + 1  -- an off-by-one step
NextBatchStart_Skip(cur) == cur + BATCH_SIZE + 1
NextBatchStart(cur) == cur + BATCH_SIZE

\* The promise pushed for a slot without its .catch(): a failed slot rejects it.
SlotPromise_NoCatch(t) ==
    IF InFlight(t) THEN "pending" ELSE IF t.pc = "rejected" THEN "rejected" ELSE "fulfilled"
\* The promise pushed for a slot: processNewSlot(..).catch(..) never rejects.
SlotPromise(t) == IF InFlight(t) THEN "pending" ELSE "fulfilled"

\* Promise.race in place of Promise.all: settled with the first promise.
PromiseAll_Race(states) ==
    IF "rejected" \in states THEN "rejected"
    ELSE IF "fulfilled" \in states THEN "fulfilled"
    ELSE "pending"
\* Promise.all over the promises of a batch.
PromiseAll(states) ==
    IF "rejected" \in states THEN "rejected"
    ELSE IF states \subseteq { "fulfilled" } THEN "fulfilled"
    ELSE "pending"

\* await promises[0] in place of Promise.all(promises).
BatchPromise_FirstSlot == SlotPromise(task[currentSlot])
BatchPromise == PromiseAll({ SlotPromise(task[s]) :
                               s \in BatchSlots(currentSlot, latestSlot) \cap Slots })

\* processHistoricalBlocks without its try/catch: the error reaches start().
BackfillErrorPropagates_Rethrown == TRUE
\* The catch of processHistoricalBlocks logs and returns normally.
BackfillErrorPropagates == FALSE

NaNValue == -1
\* ((currentSlot - startSlot) / (latestSlot - startSlot) * 100).toFixed(2), in 1/100.
ProgressValue(cur, start, latest) ==
    IF latest = start THEN NaNValue
    ELSE (2 * (cur - start) * 10000 + (latest - start)) \div (2 * (latest - start))

\* if (currentSlot % 100 === 0) console.log(progress): the reports so far.
ProgressAfterBatch ==
    IF currentSlot % PROGRESS_EVERY = 0
    THEN progress \cup { [ slot |-> currentSlot,
                           value |-> ProgressValue(currentSlot, startSlot, latestSlot) ] }
    ELSE progress

(***************************************************************************)
(* The process: start(), testConnection, backfill, live tail.              *)
(***************************************************************************)
Running == exitCode = -1

\* The RPC node fails a request (or answers that a slot has no block).
Fault ==
    /\ faultsLeft # 0
    /\ faultsLeft' = IF faultsLeft < 0 THEN faultsLeft ELSE faultsLeft - 1

\* A call the node has already rate-limited may be rate-limited again.
SlotFault(t) == IF t.rateLimits > 0 THEN faultsLeft' = faultsLeft ELSE Fault

cfgVars == << debug, watchedPrograms, watchProgramId, startSlot, blockRecords >>
txVars == << tx, txOut >>
subVars == << subscribed, slotUpdateSub, healthTimer, sigintHandler >>
slotVars == << task, bfCalls, liveCalls, logs, errLog, faultsLeft >>
bfVars == << bfRuns, latestSlot, currentSlot, progress, bfResult >>

\* A slot-change callback that drops the notification while a call is in flight.
OnSlotChange_Serialised(tasks, slot) ==
    IF \E k \in Slots : InFlight(tasks[k])
    THEN tasks
    ELSE [ tasks EXCEPT ![slot] = NewTask("live") ]
\* The onSlotChange callback: processNewSlot(slotInfo) is called, not awaited.
OnSlotChange(tasks, slot) == [ tasks EXCEPT ![slot] = NewTask("live") ]

\* subscribeToBlocks(): listener, liveness timer and SIGINT handler.
SubscribeToBlocks ==
    /\ slotUpdateSub' = debug
    /\ subscribed' = TRUE
    /\ healthTimer' = TRUE
    /\ sigintHandler' = TRUE

\* The catch of start(): operation.retry(error) or process.exit(1).
StartCatch ==
    IF attempts <= retries
    THEN pc' = "retryWait" /\ exitCode' = exitCode
    ELSE pc' = "exited" /\ exitCode' = 1

\* processHistoricalBlocks() returned; start() goes on to subscribeToBlocks().
BackfillReturns(result) ==
    /\ bfResult' = result
    /\ pc' = "live"
    /\ exitCode' = exitCode
    /\ SubscribeToBlocks

\* An exception reached the try of processHistoricalBlocks.
BackfillCatch ==
    IF BackfillErrorPropagates
    THEN /\ bfResult' = "caught"
         /\ StartCatch
         /\ UNCHANGED subVars
    ELSE BackfillReturns("caught")

\* The head of the batch loop with loop variable cur: fan out, or leave the loop.
BatchLoop(cur) ==
    /\ currentSlot' = cur
    /\ IF cur <= latestSlot'
       THEN /\ pc' = "awaitBatch"
            /\ task' = [ s \in Slots |->
                           IF s \in BatchSlots(cur, latestSlot')
                           THEN NewTask("backfill") ELSE task[s] ]
            /\ bfCalls' = [ s \in Slots |->
                              IF s \in BatchSlots(cur, latestSlot')
                              THEN bfCalls[s] + 1 ELSE bfCalls[s] ]
            /\ UNCHANGED << subVars, bfResult, exitCode >>
       ELSE /\ BackfillReturns("completed")
            /\ UNCHANGED << task, bfCalls >>

(***************************************************************************)
(* Initial states.                                                         *)
(***************************************************************************)
InitProcess ==
    /\ pc = "init"
    /\ attempts = 0
    /\ exitCode = -1
    /\ bfRuns = 0
    /\ latestSlot = -1
    /\ currentSlot = startSlot
    /\ progress = {}
    /\ bfResult = "none"
    /\ subscribed = FALSE
    /\ slotUpdateSub = FALSE
    /\ healthTimer = FALSE
    /\ sigintHandler = FALSE
    /\ newestNotified = -1
    /\ task = [ s \in Slots |-> NoTask ]
    /\ bfCalls = [ s \in Slots |-> 0 ]
    /\ liveCalls = [ s \in Slots |-> 0 ]
    /\ logs = [ s \in Slots |-> ZeroLog ]
    /\ errLog = [ s \in Slots |-> 0 ]
    /\ probeFailed = FALSE

\* A backfill of several batches over a chain that is two slots from its bound.
Init ==
    /\ debug = TRUE
    /\ watchedPrograms = { RaydiumProgram }
    /\ watchProgramId = RaydiumProgram
    /\ startSlot = 0
    /\ chainSlot = MaxSlot - 2
    /\ faultsLeft = MaxFaults
    /\ blockRecords = BlockRecords(Config)
    /\ tx = NoMetaTx
    /\ txOut = [ done |-> FALSE, out |-> NothingEmitted ]
    /\ InitProcess

\* The process starts at the head of the chain; every fetch may fail.
SlotInit ==
    /\ debug \in BOOLEAN
    /\ watchedPrograms = { RaydiumProgram }
    /\ watchProgramId = RaydiumProgram
    /\ startSlot = MaxSlot - 1
    /\ chainSlot = MaxSlot - 1
    /\ faultsLeft = -1
    /\ blockRecords = BlockRecords(Config)
    /\ tx = NoMetaTx
    /\ txOut = [ done |-> FALSE, out |-> NothingEmitted ]
    /\ InitProcess

\* One transaction of a fetched block, under every configuration.
TxInit ==
    /\ \E cfg \in Configs :
          /\ debug = cfg.debug
          /\ watchedPrograms = cfg.watchedPrograms
          /\ watchProgramId = cfg.watchProgramId
    /\ startSlot = 0
    /\ chainSlot = 0
    /\ faultsLeft = 0
    /\ blockRecords = [ s \in Slots |-> ZeroLog ]
    /\ tx \in TxInputs
    /\ txOut = [ done |-> FALSE, out |-> NothingEmitted ]
    /\ InitProcess

(***************************************************************************)
(* start() and testConnection().                                           *)
(***************************************************************************)
\* operation.attempt(fn) calls fn(1): testConnection awaits getVersion().
StartAttempt ==
    /\ Running /\ pc = "init"
    /\ pc' = "getVersion"
    /\ attempts' = 1
    /\ UNCHANGED << cfgVars, txVars, subVars, slotVars, bfVars, chainSlot, exitCode,
                    newestNotified, probeFailed >>

GetVersionReturns ==
    /\ Running /\ pc = "getVersion"
    /\ pc' = "testGetSlot"
    /\ UNCHANGED << cfgVars, txVars, subVars, slotVars, bfVars, chainSlot, exitCode,
                    newestNotified, probeFailed, attempts >>

\* getVersion() or getSlot() of testConnection throws: the catch of start().
ConnectionTestFails ==
    /\ Running /\ pc \in { "getVersion", "testGetSlot" }
    /\ Fault
    /\ StartCatch
    /\ UNCHANGED << cfgVars, txVars, subVars, bfVars, chainSlot, newestNotified,
                    probeFailed, attempts, task, bfCalls, liveCalls, logs, errLog >>

\* The timer of operation.retry calls fn(currentAttempt + 1).
RetryTimerFires ==
    /\ Running /\ pc = "retryWait"
    /\ attempts' = attempts + 1
    /\ pc' = "getVersion"
    /\ UNCHANGED << cfgVars, txVars, subVars, slotVars, bfVars, chainSlot, exitCode,
                    newestNotified, probeFailed >>

\* testConnection() returns; processHistoricalBlocks() awaits getSlot().
TestGetSlotReturns ==
    /\ Running /\ pc = "testGetSlot"
    /\ pc' = "bfGetSlot"
    /\ bfRuns' = bfRuns + 1
    /\ UNCHANGED << cfgVars, txVars, subVars, slotVars, chainSlot, exitCode, attempts,
                    newestNotified, probeFailed, latestSlot, currentSlot, progress,
                    bfResult >>

(***************************************************************************)
(* processHistoricalBlocks().                                              *)
(***************************************************************************)
BackfillGetSlotReturns ==
    /\ Running /\ pc = "bfGetSlot"
    /\ latestSlot' = chainSlot
    /\ BatchLoop(startSlot)
    /\ UNCHANGED << cfgVars, txVars, chainSlot, attempts, newestNotified, probeFailed,
                    bfRuns, progress, liveCalls, logs, errLog, faultsLeft >>

BackfillGetSlotThrows ==
    /\ Running /\ pc = "bfGetSlot"
    /\ Fault
    /\ BackfillCatch
    /\ UNCHANGED << cfgVars, txVars, chainSlot, attempts, newestNotified, probeFailed,
                    bfRuns, latestSlot, currentSlot, progress, task, bfCalls, liveCalls,
                    logs, errLog >>

\* await Promise.all(promises)
BatchAwaited ==
    /\ Running /\ pc = "awaitBatch"
    /\ BatchPromise # "pending"
    /\ IF BatchPromise = "fulfilled"
       THEN /\ pc' = "batchDelay"
            /\ UNCHANGED << subVars, bfResult, exitCode >>
       ELSE BackfillCatch
    /\ UNCHANGED << cfgVars, txVars, slotVars, chainSlot, attempts, newestNotified,
                    probeFailed, bfRuns, latestSlot, currentSlot, progress >>

\* The BATCH_DELAY timer fires: progress report, currentSlot += BATCH_SIZE.
BatchDelayElapses ==
    /\ Running /\ pc = "batchDelay"
    /\ progress' = ProgressAfterBatch
    /\ latestSlot' = latestSlot
    /\ BatchLoop(NextBatchStart(currentSlot))
    /\ UNCHANGED << cfgVars, txVars, chainSlot, attempts, newestNotified, probeFailed,
                    bfRuns, liveCalls, logs, errLog, faultsLeft >>

(***************************************************************************)
(* processNewSlot(): the answers of getBlock and the backoff timer.        *)
(***************************************************************************)
GetBlockReturnsBlock(s) ==
    /\ Running /\ task[s].pc = "fetching"
    /\ task' = [ task EXCEPT ![s] = AfterBlock(@) ]
    /\ logs' = [ logs EXCEPT ![s] = AddLog(@, blockRecords[s]) ]
    /\ UNCHANGED << cfgVars, txVars, subVars, bfVars, chainSlot, pc, attempts, exitCode,
                    newestNotified, probeFailed, bfCalls, liveCalls, errLog, faultsLeft >>

GetBlockReturnsNull(s) ==
    /\ Running /\ task[s].pc = "fetching"
    /\ Fault
    /\ task' = [ task EXCEPT ![s] = AfterNull(@) ]
    /\ UNCHANGED << cfgVars, txVars, subVars, bfVars, chainSlot, pc, attempts, exitCode,
                    newestNotified, probeFailed, bfCalls, liveCalls, logs, errLog >>

GetBlockThrows(s, e) ==
    /\ Running /\ task[s].pc = "fetching"
    /\ IF IsRateLimit(e) THEN SlotFault(task[s]) ELSE Fault
    /\ task' = [ task EXCEPT ![s] = Catch(@, e) ]
    /\ errLog' = [ errLog EXCEPT ![s] = @ + CatchErrorLines(task[s], e) ]
    /\ UNCHANGED << cfgVars, txVars, subVars, bfVars, chainSlot, pc, attempts, exitCode,
                    newestNotified, probeFailed, bfCalls, liveCalls, logs >>

BackoffElapses(s) ==
    /\ Running /\ task[s].pc = "backoff"
    /\ task' = [ task EXCEPT ![s] = NextAttempt(@) ]
    /\ UNCHANGED << cfgVars, txVars, subVars, bfVars, chainSlot, pc, attempts, exitCode,
                    newestNotified, probeFailed, bfCalls, liveCalls, logs, errLog,
                    faultsLeft >>

(***************************************************************************)
(* The chain, the live tail, the liveness probe and the shutdown signal.   *)
(***************************************************************************)
\* The chain produces a slot; a registered onSlotChange callback calls processNewSlot.
SlotProduced ==
    /\ Running /\ chainSlot < MaxSlot
    /\ chainSlot' = chainSlot + 1
    /\ IF subscribed
       THEN /\ newestNotified' = chainSlot + 1
            /\ task' = OnSlotChange(task, chainSlot + 1)
            /\ liveCalls' = [ liveCalls EXCEPT ![chainSlot + 1] = @ + 1 ]
       ELSE UNCHANGED << newestNotified, task, liveCalls >>
    /\ UNCHANGED << cfgVars, txVars, subVars, bfVars, pc, attempts, exitCode,
                    probeFailed, bfCalls, logs, errLog, faultsLeft >>

\* A catch of the probe that gives up: clearInterval(this.healthCheckInterval).
ProbeCatch_ClearsTimer(timer) == FALSE
\* The catch of the probe callback only logs: the interval stays armed.
ProbeCatch(timer) == timer

\* The setInterval callback: getSlot() answers or throws.
HealthCheck(ok) ==
    /\ Running /\ healthTimer
    /\ IF ok THEN UNCHANGED << probeFailed, faultsLeft, healthTimer >>
       ELSE Fault /\ probeFailed' = TRUE /\ healthTimer' = ProbeCatch(healthTimer)
    /\ UNCHANGED << cfgVars, txVars, subscribed, slotUpdateSub, sigintHandler, bfVars,
                    chainSlot, pc, attempts, exitCode, newestNotified, task, bfCalls,
                    liveCalls, logs, errLog >>

\* The SIGINT handler that subscribeToBlocks registers.
Sigint ==
    /\ Running /\ sigintHandler
    /\ pc' = "exited"
    /\ subscribed' = FALSE
    /\ slotUpdateSub' = slotUpdateSub
    /\ healthTimer' = FALSE
    /\ sigintHandler' = sigintHandler
    /\ exitCode' = 0
    /\ UNCHANGED << cfgVars, txVars, slotVars, bfVars, chainSlot, attempts,
                    newestNotified, probeFailed >>

Next ==
    \/ StartAttempt
    \/ GetVersionReturns
    \/ ConnectionTestFails
    \/ RetryTimerFires
    \/ TestGetSlotReturns
    \/ BackfillGetSlotReturns
    \/ BackfillGetSlotThrows
    \/ BatchAwaited
    \/ BatchDelayElapses
    \/ \E s \in Slots : GetBlockReturnsBlock(s)
    \/ \E s \in Slots : GetBlockReturnsNull(s)
    \/ \E s \in Slots, e \in Errors : GetBlockThrows(s, e)
    \/ \E s \in Slots : BackoffElapses(s)
    \/ SlotProduced
    \/ \E ok \in BOOLEAN : HealthCheck(ok)
    \/ Sigint

Spec == Init /\ [][Next]_vars
SlotSpec == SlotInit /\ [][Next]_vars

(***************************************************************************)
(* TxSpec: the transaction loop body applied to one transaction.           *)
(***************************************************************************)
ProcessTransaction ==
    /\ ~txOut.done
    /\ txOut' = [ done |-> TRUE, out |-> ProcessTx(tx, Config) ]
    /\ UNCHANGED << cfgVars, subVars, slotVars, bfVars, chainSlot, pc, attempts,
                    exitCode, newestNotified, probeFailed, tx >>

TxNext == ProcessTransaction
TxSpec == TxInit /\ [][TxNext]_vars

(***************************************************************************)
(* The instruction decode alone: one instruction per transaction, over     *)
(* payloads around every key of the discriminator table.                   *)
(***************************************************************************)
TableKeyBytes == { FromHex(e.key) : e \in RAYDIUM_INSTRUCTION_TYPES }
\* A payload prefix that differs from a table key in its last byte.
LastByteChanged(bytes) ==
    [ i \in 1..Len(bytes) |-> IF i = Len(bytes) THEN (bytes[i] + 1) % 256 ELSE bytes[i] ]
DecodePrefixes ==
    TableKeyBytes \cup { LastByteChanged(b) : b \in TableKeyBytes }
        \cup { << 0, 0, 0, 0, 0, 0, 0, 0 >>, << 143, 190, 90 >> }
DecodeSuffixes == { << >>, << 1 >>, << 0, 255 >> }
DecodePayloads == { p \o x : p \in DecodePrefixes, x \in DecodeSuffixes }
DecodeInputs ==
    { MakeTx("ok", << [ programIdIndex |-> i, accountKeyIndexes |-> << 2 >>, data |-> d ] >>,
             NoBalances, NoBalances) :
        i \in { 0, 1 }, d \in DecodePayloads }

DecodeInit ==
    /\ debug = FALSE
    /\ watchedPrograms = {}
    /\ watchProgramId \in { RaydiumProgram, NoKey }
    /\ startSlot = 0
    /\ chainSlot = 0
    /\ faultsLeft = 0
    /\ blockRecords = [ s \in Slots |-> ZeroLog ]
    /\ tx \in DecodeInputs
    /\ txOut = [ done |-> FALSE, out |-> NothingEmitted ]
    /\ InitProcess

DecodeSpec == DecodeInit /\ [][TxNext]_vars

(***************************************************************************)
(* parseSwapInstruction alone, over pre/post balance sets that may hold    *)
(* several accounts of one mint.                                           *)
(***************************************************************************)
DevMint == "4QGCZU9vto49NwohfTLQd8JA6B49dacpMyNhfFB1W9We"
DecimalsOf(mint) == IF mint = SolMint THEN 5 ELSE IF mint = UsdcMint THEN 6 ELSE 2
BalanceEntries ==
    { [ mint |-> m, amount |-> a, decimals |-> DecimalsOf(m) ] :
        m \in { SolMint, UsdcMint }, a \in { 3, 8 } }
BalanceSets == UNION { [ 1..n -> BalanceEntries ] : n \in 0..MaxEntries }
\* The swap of the README (1000 SOL -> 937.4313 SOL, 789.570864 USDC); the
\* SOL amounts are kept in units of 10^4 lamports, with 5 decimals.
ReadmePre == << [mint |-> SolMint, amount |-> 100000000, decimals |-> 5] >>
ReadmePost == << [mint |-> SolMint, amount |-> 93743130, decimals |-> 5],
                 [mint |-> UsdcMint, amount |-> 789570864, decimals |-> 6] >>
\* A swap that also credits a third asset.
ThreeAssetPre == << [mint |-> SolMint, amount |-> 8, decimals |-> 5],
                    [mint |-> UsdcMint, amount |-> 3, decimals |-> 6] >>
ThreeAssetPost == << [mint |-> SolMint, amount |-> 3, decimals |-> 5],
                     [mint |-> DevMint, amount |-> 3, decimals |-> 2],
                     [mint |-> UsdcMint, amount |-> 8, decimals |-> 6] >>
DiffInputs ==
    { MakeTx("ok", << SwapIx >>, pre, post) :
        pre \in BalanceSets \cup { NoBalances }, post \in BalanceSets \cup { NoBalances } }
      \cup { MakeTx("ok", << SwapIx >>, ReadmePre, ReadmePost),
             MakeTx("ok", << SwapIx >>, ThreeAssetPre, ThreeAssetPost) }
      \cup { MakeTx("ok", << SwapIx >>, pre, ThreeAssetPost) : pre \in BalanceSets }

\* What one call of parseSwapInstruction prints ('代币余额变化:') and returns.
ParseSwapOutcome(pre, post) ==
    [ changes |-> IF pre = NoBalances \/ post = NoBalances THEN << >>
                  ELSE SelectSeq(BalanceChanges(pre, post), LAMBDA c : Abs(c.change) > 0),
      details |-> parseSwapInstruction(pre, post) ]

DiffInit ==
    /\ debug = FALSE
    /\ watchedPrograms = { RaydiumProgram }
    /\ watchProgramId = RaydiumProgram
    /\ startSlot = 0
    /\ chainSlot = 0
    /\ faultsLeft = 0
    /\ blockRecords = [ s \in Slots |-> ZeroLog ]
    /\ tx \in DiffInputs
    /\ txOut = [ done |-> FALSE, out |-> [ changes |-> << >>, details |-> NoSwap ] ]
    /\ InitProcess

ParseSwap ==
    /\ ~txOut.done
    /\ txOut' = [ done |-> TRUE, out |-> ParseSwapOutcome(tx.pre, tx.post) ]
    /\ UNCHANGED << cfgVars, subVars, slotVars, bfVars, chainSlot, pc, attempts,
                    exitCode, newestNotified, probeFailed, tx >>

DiffNext == ParseSwap
DiffSpec == DiffInit /\ [][DiffNext]_vars

(***************************************************************************)
(* Properties.                                                             *)
(***************************************************************************)
Handed(s) == bfCalls[s] + liveCalls[s]
BackfillInFlight == { s \in Slots : task[s].origin = "backfill" /\ InFlight(task[s]) }

\* C1: backfill completeness.  The backfill calls processNewSlot for no slot
\* outside [startSlot, latestSlot] and for no slot twice, and once it has
\* completed it has called it exactly once for every slot of the range,
\* whatever the slots' fetches answered.
C1_BackfillCompleteness ==
    /\ \A s \in Slots : bfCalls[s] <= 1
    /\ \A s \in Slots : (s < startSlot \/ s > latestSlot) => bfCalls[s] = 0
    /\ bfResult = "completed" => \A s \in startSlot..latestSlot : bfCalls[s] = 1

\* A completed backfill of more than one batch with a failed slot, while the
\* chain has moved past the captured bound.
C1_Witness ==
    /\ bfResult = "completed"
    /\ latestSlot >= startSlot + BATCH_SIZE
    /\ chainSlot > latestSlot
    /\ \E s \in startSlot..latestSlot : task[s].pc = "rejected"

\* C2: backfill and live tail together hand every slot from the start slot
\* to the newest notified slot to per-slot processing, also across the seam
\* between a completed backfill and the registration of the subscription.
C2_NoSlotMissed ==
    (bfResult = "completed" /\ newestNotified # -1)
        => \A s \in startSlot..newestNotified : Handed(s) >= 1

\* C3: rate-limit recovery.  A slot whose fetch was rate-limited three times
\* in a row still has its block processed, exactly once.
C3_RateLimitRecovery ==
    \A s \in Slots :
        (Settled(task[s]) /\ task[s].rateLimits = 3)
            => (task[s].processed = 1 /\ logs[s] = blockRecords[s])

\* C4: a slot whose every allowed fetch was rate-limited ends as a failure
\* that its caller sees (the promise rejects).
C4_ExhaustionSurfaced ==
    \A s \in Slots :
        (Settled(task[s]) /\ task[s].rateLimits = maxRetries) => task[s].pc = "rejected"

\* C5: a 'Block not available' failure is silent in both phases: no error
\* line is logged for the slot, in the backfill and in the live tail.
C5_NotAvailableNotLogged ==
    \A s \in Slots : task[s].outcome = "notAvailable" => errLog[s] = 0

\* One step of a slot's call around a null answer of getBlock.
C6_NullStep ==
    \A s \in Slots :
        /\ (task[s].outcome # "absent" /\ task'[s].outcome = "absent")
              => /\ task'[s].pc = "resolved"
                 /\ task'[s].fetches = task[s].fetches
                 /\ logs' = logs
                 /\ errLog' = errLog
        /\ task[s].outcome = "absent"
              => /\ task'[s] = task[s]
                 /\ logs'[s] = logs[s]
                 /\ errLog'[s] = errLog[s]

\* A call that ended on a null answer is resolved; if that was its first
\* answer, the slot has no record and no error line.
C6_NullState ==
    \A s \in Slots :
        task[s].outcome = "absent"
            => /\ task[s].pc = "resolved"
               /\ task[s].processed = 0 => (logs[s] = ZeroLog /\ errLog[s] = 0)

\* C6: skipped slot.  The step in which getBlock answers null for a slot ends
\* the slot's processing as resolved (no failure outcome), appends no record
\* to any log category, logs no error and issues no fetch; afterwards the
\* slot's call, records and error lines never change.
C6_SkippedSlot == [][C6_NullStep]_vars /\ []C6_NullState

\* A slot whose first fetch answered null, for a block that holds records.
C6_Witness ==
    \E s \in Slots :
        /\ task[s].outcome = "absent"
        /\ task[s].fetches = 1
        /\ blockRecords[s] # ZeroLog

\* C7: batches are sequential.  Every backfill call in flight belongs to the
\* batch the loop is waiting for, so at most BATCH_SIZE are in flight and
\* every call of an earlier batch has settled.
C7_BatchesSequential ==
    /\ Cardinality(BackfillInFlight) <= BATCH_SIZE
    /\ BackfillInFlight # {}
         => /\ pc = "awaitBatch"
            /\ BackfillInFlight \subseteq BatchSlots(currentSlot, latestSlot)
    /\ pc \in { "awaitBatch", "batchDelay" }
         => \A s \in startSlot..(currentSlot - 1) : Settled(task[s])

\* The second batch is in flight after a first batch of BATCH_SIZE slots,
\* one of which failed.
C7_Witness ==
    /\ pc = "awaitBatch"
    /\ currentSlot = startSlot + BATCH_SIZE
    /\ BackfillInFlight # {}
    /\ \E s \in startSlot..(currentSlot - 1) : task[s].pc = "rejected"

\* C8: slot failures abort nothing.  A backfill that captured its range and
\* is no longer in its loop ended in its completion state, with every slot
\* of the range called and settled; a failed slot leaves the loop running.
C8_FailuresDoNotAbort ==
    /\ (latestSlot # -1 /\ pc \notin { "awaitBatch", "batchDelay" })
          => /\ bfResult = "completed"
             /\ \A s \in startSlot..latestSlot : bfCalls[s] = 1 /\ Settled(task[s])
    /\ pc \in { "awaitBatch", "batchDelay" } => bfResult = "none"

\* The backfill completed although a slot of its first batch failed with an
\* error that is not a rate limit, and a later batch ran.
C8_Witness ==
    /\ bfResult = "completed"
    /\ latestSlot >= startSlot + BATCH_SIZE
    /\ \E s \in startSlot..(startSlot + BATCH_SIZE - 1) : task[s].outcome = "error"

\* C9: the backfill runs once and the subscription is registered only after
\* it: processHistoricalBlocks is entered at most once, also over startup
\* retries, and while it runs nothing is subscribed.
C9_BackfillOnceThenLive ==
    /\ bfRuns <= 1
    /\ subscribed => (bfRuns = 1 /\ bfResult # "none" /\ BackfillInFlight = {})
    /\ pc \in { "bfGetSlot", "awaitBatch", "batchDelay" } => ~subscribed

\* The subscription is registered in a run whose first startup attempt failed.
C9_Witness ==
    /\ subscribed
    /\ attempts >= 2
    /\ bfResult = "completed"

\* C10: only successful transactions are classified.  Processing a transaction
\* whose outcome is a failure or whose meta is missing decodes no instruction
\* and emits no record of any category.
C10_OnlySuccessfulClassified ==
    (txOut.done /\ tx.meta \in { "err", "missing" })
        => /\ txOut.out.decoded = << >>
           /\ txOut.out.swaps = << >>
           /\ \A c \in Categories : txOut.out.records[c] = 0

\* A failed transaction was processed that, had it succeeded, would have been
\* matched and logged as a swap.
C10_Witness ==
    /\ txOut.done
    /\ tx.meta = "err"
    /\ ProcessTx([ tx EXCEPT !.meta = "ok" ], Config).records.swap > 0

\* The instructions of the processed transaction that left decoding with a type.
DecodedOf(out) == { out.decoded[i] : i \in 1..Len(out.decoded) }
Typed(ins) == ins.type # NoType \/ ins.discriminator # << >>
PayloadBytes(ins) == Len(FromHex(ins.data))
\* A program the WatchSet selects: any program when the set is empty.
InWatchSet(p) == watchedPrograms = {} \/ p \in watchedPrograms

\* C11 (as stated): an instruction is typed only if its payload has at least
\* 8 bytes and its program is one of the watched programs (the WatchSet).
C11_TypedOnlyInWatchSet ==
    txOut.done =>
        \A ins \in DecodedOf(txOut.out) :
            Typed(ins) => (PayloadBytes(ins) >= 8 /\ InWatchSet(ins.programId))

\* C11 (amended): an instruction is typed only if its payload has at least 8
\* bytes and its program is the primary watched program (WATCH_PROGRAM_ID),
\* whether or not that program is in the WatchSet; an instruction with a
\* shorter payload or of another program leaves decoding untyped, with its
\* program, accounts and payload passed through.
C11_TypedOnlyForPrimary ==
    txOut.done =>
        \A ins \in DecodedOf(txOut.out) :
            /\ Typed(ins) => (PayloadBytes(ins) >= 8 /\ ins.programId = watchProgramId)
            /\ (PayloadBytes(ins) < 8 \/ ins.programId # watchProgramId)
                  => (ins.type = NoType /\ ins.discriminator = << >>)

\* A transaction was decoded in which an instruction of the primary program,
\* which is outside a non-empty WatchSet, was typed next to an untyped one.
C11_Witness ==
    /\ txOut.done
    /\ watchedPrograms # {}
    /\ \E ins \in DecodedOf(txOut.out) :
          Typed(ins) /\ ins.programId \notin watchedPrograms
    /\ \E ins \in DecodedOf(txOut.out) : ~Typed(ins)

OperationTypes == { e.name : e \in RAYDIUM_INSTRUCTION_TYPES } \cup { "unknown" }
TableKeys == { e.key : e \in RAYDIUM_INSTRUCTION_TYPES }
\* The first 8 bytes of a decoded instruction's payload, as lowercase hex.
Prefix8(ins) == SubSeq(ins.data, 1, 16)

\* C12: discriminator resolution is total and matches the table.  Every
\* instruction of the primary watched program with a payload of 8 bytes or
\* more leaves decoding with its first 8 bytes as discriminator and with the
\* type 'swap' for 8fbe5adac41e33de, 'createPool' for 0b05a0b39c3cd8ea, the
\* mapped name for any other table key and 'unknown' for every other prefix.
C12_ResolutionMatchesTable ==
    txOut.done =>
        /\ Len(txOut.out.decoded) = Len(tx.ixs)
        /\ \A ins \in DecodedOf(txOut.out) :
              (ins.programId = watchProgramId /\ PayloadBytes(ins) >= 8)
                  => /\ ins.discriminator = Prefix8(ins)
                     /\ ins.type \in OperationTypes
                     /\ Prefix8(ins) = ToHex(<< 143, 190, 90, 218, 196, 30, 51, 222 >>)
                           => ins.type = "swap"
                     /\ Prefix8(ins) = ToHex(<< 11, 5, 160, 179, 156, 60, 216, 234 >>)
                           => ins.type = "createPool"
                     /\ \A e \in RAYDIUM_INSTRUCTION_TYPES :
                           Prefix8(ins) = e.key => ins.type = e.name
                     /\ Prefix8(ins) \notin TableKeys => ins.type = "unknown"

\* An instruction of the primary program whose 8-byte prefix differs from the
\* swap key in its last byte only was resolved to 'unknown'.
C12_Witness ==
    /\ txOut.done
    /\ \E ins \in DecodedOf(txOut.out) :
          /\ ins.type = "unknown"
          /\ Prefix8(ins) = ToHex(<< 143, 190, 90, 218, 196, 30, 51, 223 >>)

\* The programs a transaction's instructions invoke, read off its account table.
InvokedPrograms(t) ==
    { t.keys[t.ixs[i].programIdIndex + 1] :
        i \in { j \in 1..Len(t.ixs) : t.ixs[j].programIdIndex \in 0..(Len(t.keys) - 1) } }
\* The transaction passed the filter: a txInfo with its relevant programs was built.
Matched(out) == out.programs # {}
Filtered == txOut.done /\ TxSucceeded(tx) /\ tx.shape = "full"

\* C13 (as stated): with an empty WatchSet every successful transaction is
\* matched, also one without instructions or without a resolvable program;
\* with a non-empty WatchSet a transaction is matched iff one of its invoked
\* programs is in the WatchSet.
C13_EmptyWatchSetMatchesAll ==
    Filtered =>
        IF watchedPrograms = {} THEN Matched(txOut.out)
        ELSE Matched(txOut.out) <=> (InvokedPrograms(tx) \cap watchedPrograms # {})

\* C13 (amended): with an empty WatchSet a successful transaction is matched
\* iff its instructions invoke at least one resolvable program; with a
\* non-empty WatchSet it is matched iff one of its invoked programs is in the
\* WatchSet; the relevant programs are the invoked ones the WatchSet selects.
C13_WatchSetSemantics ==
    Filtered =>
        /\ txOut.out.programs =
              IF watchedPrograms = {} THEN InvokedPrograms(tx)
              ELSE InvokedPrograms(tx) \cap watchedPrograms
        /\ watchedPrograms = {} => (Matched(txOut.out) <=> InvokedPrograms(tx) # {})
        /\ watchedPrograms # {}
              => (Matched(txOut.out) <=> (InvokedPrograms(tx) \cap watchedPrograms # {}))

\* Under an empty WatchSet a successful transaction that carries balances but
\* no instruction was processed and not matched.
C13_Witness ==
    /\ Filtered
    /\ watchedPrograms = {}
    /\ tx.ixs = << >>
    /\ tx.pre # NoBalances
    /\ ~Matched(txOut.out)

RECURSIVE SumAmounts(_, _)
SumAmounts(set, mint) ==
    IF set = << >> THEN 0
    ELSE (IF Head(set).mint = mint THEN Head(set).amount ELSE 0) + SumAmounts(Tail(set), mint)
MintsOf(set) == { set[i].mint : i \in 1..Len(set) }
\* An asset's net change over all accounts: total post minus total pre.
NetChange(t, mint) == SumAmounts(t.post, mint) - SumAmounts(t.pre, mint)
NonzeroAssets(t) == { m \in MintsOf(t.pre) \cup MintsOf(t.post) : NetChange(t, m) # 0 }
Diffed == txOut.done /\ tx.pre # NoBalances /\ tx.post # NoBalances

\* C14: balance-diff conservation.  The nonzero changes parseSwapInstruction
\* computes are exactly the assets whose total post amount differs from their
\* total pre amount, each with that difference as its change, also when the
\* pre-set holds several entries of one asset.
C14_DiffConservation ==
    Diffed =>
        /\ { c.mint : c \in { txOut.out.changes[i] : i \in 1..Len(txOut.out.changes) } }
              = NonzeroAssets(tx)
        /\ \A i \in 1..Len(txOut.out.changes) :
              txOut.out.changes[i].change = NetChange(tx, txOut.out.changes[i].mint)

\* The change the call computed for a leg's asset.
ComputedChange(out, mint) ==
    LET hit == { i \in 1..Len(out.changes) : out.changes[i].mint = mint }
    IN  IF hit = {} THEN 0 ELSE out.changes[CHOOSE i \in hit : TRUE].change
IsRecord(out) == out.details # NoSwap

\* C15: two-leg minimum.  parseSwapInstruction returns none whenever fewer
\* than two assets have a nonzero net change (total post minus total pre),
\* also when a balance set is absent, and returns a swap record whenever
\* exactly two assets have one.
C15_TwoLegMinimum ==
    txOut.done =>
        /\ (tx.pre = NoBalances \/ tx.post = NoBalances) => ~IsRecord(txOut.out)
        /\ (Diffed /\ Cardinality(NonzeroAssets(tx)) < 2) => ~IsRecord(txOut.out)
        /\ (Diffed /\ Cardinality(NonzeroAssets(tx)) = 2) => IsRecord(txOut.out)

\* C16: a swap record has a paying and a receiving leg.  In every record
\* parseSwapInstruction returns, the change of the input leg's asset is
\* strictly negative and the change of the output leg's asset is strictly
\* positive; there is no record when all nonzero changes have one sign.
C16_LegsHaveOppositeSigns ==
    (txOut.done /\ IsRecord(txOut.out))
        => /\ ComputedChange(txOut.out, txOut.out.details.inputTransfer.token) < 0
           /\ ComputedChange(txOut.out, txOut.out.details.outputTransfer.token) > 0

\* amount (in units of 0.0001) is the multiple of 0.0001 nearest to raw / 10^decimals.
NearestTo4Digits(amount, raw, decimals) ==
    IF decimals >= 4
    THEN 2 * Abs(amount * Pow10(decimals - 4) - raw) <= Pow10(decimals - 4)
    ELSE amount = raw * Pow10(4 - decimals)
\* The decimals the call recorded for an asset.
ComputedDecimals(out, mint) ==
    out.changes[CHOOSE i \in 1..Len(out.changes) : out.changes[i].mint = mint].decimals
LegScaled(out, leg, raw) ==
    /\ leg.decimals = ComputedDecimals(out, leg.token)
    /\ NearestTo4Digits(leg.amount, raw, leg.decimals)
    /\ leg.decimals > 0 => ~(leg.amount % Pow10(4) = 0 /\ leg.amount \div Pow10(4) = raw)

LiveInFlight == { s \in Slots : task[s].origin = "live" /\ InFlight(task[s]) }

\* C18: each slot notification starts that slot's processing at once (its
\* first getBlock is issued in the same step), whatever calls for earlier
\* slots are still in flight, and leaves those calls as they are.
C18_NoBackPressure ==
    [][ (subscribed /\ chainSlot' = chainSlot + 1)
          => /\ task'[chainSlot'] = NewTask("live")
             /\ \A s \in Slots \ { chainSlot' } : task'[s] = task[s] ]_vars

\* Slots K and K+1 of the live tail overlap, and K+1 has appended its records
\* while K has appended none.
C18_Witness ==
    \E k \in Slots :
        /\ k + 1 \in Slots
        /\ { k, k + 1 } \subseteq LiveInFlight
        /\ task[k].processed = 0 /\ logs[k] = ZeroLog
        /\ task[k + 1].processed >= 1 /\ logs[k + 1] # ZeroLog

(***************************************************************************)
(* C19: teardown of the subscriptions on every exit path.                  *)
(***************************************************************************)
\* A slot notification handle of the RPC client is still registered.
HandleRegistered == subscribed \/ slotUpdateSub
\* The exit through the shutdown signal tore down what it names.
SigintTeardown == exitCode = 0 => (~subscribed /\ ~healthTimer)
\* The fatal exit of start() happens with nothing registered.
FatalExitTeardown == exitCode = 1 => (~HandleRegistered /\ ~healthTimer)

\* C19: whenever the process has exited, by the shutdown signal or by the
\* fatal startup error, no slot notification handle is registered any more
\* and the liveness-probe timer is cancelled.
C19_TeardownOnExit == ~Running => (~HandleRegistered /\ ~healthTimer)

(***************************************************************************)
(* C20: in-flight slot processing at the shutdown signal.                  *)
(***************************************************************************)
\* The call for slot s has appended the records of a pass over its block and
\* is still in its retry loop, where the next getBlock leads to another pass.
PartlyEmitted(s) ==
    /\ InFlight(task[s])
    /\ task[s].processed >= 1
    /\ logs[s] # ZeroLog

\* C20: the exit through the shutdown signal waits for slot processing in
\* flight: the process has never exited while a call of processNewSlot has
\* appended some of its log records and not yet all of them.
C20_NoExitMidProcessing ==
    exitCode = 0 => \A s \in Slots : ~PartlyEmitted(s)

(***************************************************************************)
(* C21: the fatal exit and the way into the live phase.                    *)
(***************************************************************************)
\* The failure exit follows a failed connectivity test in each of the
\* retries + 1 attempts of start(); no call of processNewSlot has been made.
FatalOnlyAfterRetries ==
    exitCode = 1 => /\ attempts = retries + 1
                    /\ bfRuns = 0
                    /\ \A s \in Slots : task[s] = NoTask
\* A failed slot or a failed probe leaves the process running.
FailuresNotFatal ==
    [][ ((\E s \in Slots : task'[s].pc = "rejected" /\ task[s].pc # "rejected")
          \/ (probeFailed' /\ ~probeFailed)) => exitCode' = exitCode ]_vars

\* C21: the process exits with failure only after the connectivity test has
\* failed in every startup attempt, and the live phase is entered only after
\* a backfill that ran to its end.
C21_FatalOnlyPathAndNoHalfInit ==
    /\ FatalOnlyAfterRetries
    /\ pc = "live" => bfResult = "completed"

(***************************************************************************)
(* RedecodeSpec: processNewSlot fetches a slot's block in every iteration  *)
(* of its attempt loop, so one raw transaction is decoded up to maxRetries *)
(* times in a run; each pass is computed from the state at its time.       *)
(***************************************************************************)
RedecodeInit ==
    /\ \E cfg \in Configs :
          /\ debug = cfg.debug
          /\ watchedPrograms = cfg.watchedPrograms
          /\ watchProgramId = cfg.watchProgramId
    /\ startSlot = 0
    /\ chainSlot = 0
    /\ faultsLeft = 0
    /\ blockRecords = [ s \in Slots |-> ZeroLog ]
    /\ tx \in TxInputs
    /\ txOut = [ done |-> FALSE, out |-> NothingEmitted, passes |-> << >> ]
    /\ InitProcess

\* One pass of the transaction loop body over tx.
DecodePass ==
    /\ Len(txOut.passes) < maxRetries
    /\ txOut' = [ done |-> TRUE,
                  out |-> ProcessTx(tx, Config),
                  passes |-> Append(txOut.passes, DecodeAll(tx.ixs, tx.keys, Config)) ]
    /\ UNCHANGED << cfgVars, subVars, slotVars, bfVars, chainSlot, pc, attempts,
                    exitCode, newestNotified, probeFailed, tx >>

RedecodeNext == DecodePass
RedecodeSpec == RedecodeInit /\ [][RedecodeNext]_vars

FetchesAgain(s) ==
    /\ task[s].fetches >= 1
    /\ task'[s].fetches = task[s].fetches + 1

\* C23: a call of processNewSlot issues at most 3 block fetches; it issues a
\* further fetch only out of the wait after a rate-limit error; and the wait
\* after its k-th rate-limit error is baseDelay * 2^(k-1).
C23_FetchOnlyAfterRateLimit ==
    [][ \A s \in Slots :
          /\ task'[s].fetches <= maxRetries
          /\ FetchesAgain(s) => task[s].pc = "backoff"
          /\ (task'[s].pc = "backoff" /\ task[s].pc # "backoff")
                => BackoffDelay(task'[s]) = baseDelay * (2 ^ (task'[s].rateLimits - 1)) ]_vars

(***************************************************************************)
(* C24: a fetch error that is neither a rate limit nor 'not available'.    *)
(***************************************************************************)
\* The call for slot s has been rejected with an error of the third kind.
HardFailed(s) == task[s].pc = "rejected" /\ task[s].outcome = "error"

\* C24: when getBlock fails with an error that is neither a rate limit nor
\* 'Block not available', the call rejects in that step, it never fetches
\* again, and the step leaves the call of every other slot as it was.
C24_OtherErrorNotRetried ==
    [][ \A s \in Slots :
          /\ (task[s].pc = "fetching" /\ task'[s].outcome = "error")
                => /\ task'[s].pc = "rejected"
                   /\ task'[s].fetches = task[s].fetches
                   /\ \A r \in Slots \ { s } : task'[r] = task[r]
          /\ HardFailed(s) => task'[s] = task[s] ]_vars

\* A slot failed hard while another call was in flight, and that call has
\* gone on to process its block.
C24_Witness ==
    \E s, r \in Slots :
        /\ s # r
        /\ HardFailed(s)
        /\ task[r].origin = task[s].origin
        /\ task[r].processed >= 1

(***************************************************************************)
(* C25: the delay between backfill batches.                                *)
(***************************************************************************)
\* The slots of the batch the backfill is at.
CurrentBatch == BatchSlots(currentSlot, latestSlot) \cap Slots
LastBatch == currentSlot + BATCH_SIZE > latestSlot

\* C25: the wait of BATCH_DELAY starts when, and only when, every call of
\* the batch has settled, whether fulfilled or rejected; it follows every
\* batch, the last one included: the next batch is started, and the backfill
\* is completed, only by the end of that wait.
C25_DelayAfterEveryBatch ==
    [][ /\ (pc = "awaitBatch" /\ pc' # "awaitBatch")
              => /\ pc' = "batchDelay"
                 /\ \A s \in CurrentBatch : Settled(task[s])
        /\ (pc # "awaitBatch" /\ pc' = "awaitBatch" /\ currentSlot' # startSlot)
              => pc = "batchDelay"
        /\ (bfResult' = "completed" /\ bfResult # "completed" /\ startSlot <= latestSlot')
              => pc = "batchDelay" /\ LastBatch ]_vars

\* The wait after the last batch, in which a slot has failed.
C25_Witness ==
    /\ pc = "batchDelay"
    /\ LastBatch
    /\ \E s \in CurrentBatch : task[s].pc = "rejected"

(***************************************************************************)
(* IsolationSpec: the transaction loop of processNewSlot over one fetched  *)
(* block, an iteration per step.  Here tx is the block's transaction list  *)
(* and txOut.emitted what each finished iteration emitted.                 *)
(***************************************************************************)
MalformedIx == [ programIdIndex |-> 0, accountKeyIndexes |-> << 2 >>, data |-> BadData ]
ThrowingTx == [ SwapTx EXCEPT !.shape = "unresolved" ]
BadIxFirstTx == MakeTx("ok", << MalformedIx, SwapIx >>, SwapPre, SwapPost)
BadIxLastTx == MakeTx("ok", << CreatePoolIx, MalformedIx >>, NoBalances, NoBalances)
IsolationTxs == { SwapTx, ThrowingTx, BadIxFirstTx, BadIxLastTx }
IsolationBlocks == UNION { [ 1..n -> IsolationTxs ] : n \in 1..MaxTxs }

IsolationInit ==
    /\ \E cfg \in Configs :
          /\ debug = cfg.debug
          /\ watchedPrograms = cfg.watchedPrograms
          /\ watchProgramId = cfg.watchProgramId
    /\ startSlot = 0
    /\ chainSlot = 0
    /\ faultsLeft = 0
    /\ blockRecords = [ s \in Slots |-> ZeroLog ]
    /\ tx \in IsolationBlocks
    /\ txOut = [ done |-> FALSE, out |-> NothingEmitted, emitted |-> << >>,
                 reached |-> "loop" ]
    /\ InitProcess

\* for (const tx of block.transactions) { try { ... } catch { continue } }
\* An error that left the iteration would end the try of the attempt loop
\* in its catch; after the last iteration the try body is at its end.
NextTransaction ==
    /\ txOut.reached = "loop"
    /\ LET i == Len(txOut.emitted) + 1
           r == TxIteration(tx[i], Config)
           reached == IF r.thrown THEN "outerCatch"
                      ELSE IF i = Len(tx) THEN "endOfTry" ELSE "loop"
       IN  txOut' = [ done |-> reached # "loop",
                      out |-> r.out,
                      emitted |-> Append(txOut.emitted, r.out),
                      reached |-> reached ]
    /\ UNCHANGED << cfgVars, subVars, slotVars, bfVars, chainSlot, pc, attempts,
                    exitCode, newestNotified, probeFailed, tx >>

IsolationNext == NextTransaction
IsolationSpec == IsolationInit /\ [][IsolationNext]_vars

\* The transaction reaches the instruction loop.
ReachesDecode(t) ==
    /\ TxSucceeded(t) /\ t.shape = "full"
    /\ RelevantPrograms(t.ixs, t.keys, Config) # {}
\* The raw instructions of t whose decode neither skips nor throws.
SoundIxs(t) == { k \in 1..Len(t.ixs) : ~IxSkipped(t.ixs[k], t.keys) /\ ~IxThrows(t.ixs[k]) }

\* C26: failure isolation.  Every instruction of a transaction whose own
\* decode does not fail is decoded, whatever its siblings do; and an error
\* in one transaction never reaches the catch of the attempt loop: the loop
\* goes through every transaction of the block and the try body ends
\* normally, so the error causes no fetch of its own.
C26_FailureIsolation ==
    /\ txOut.reached # "outerCatch"
    /\ txOut.done => Len(txOut.emitted) = Len(tx)
    /\ \A i \in 1..Len(txOut.emitted) :
          ReachesDecode(tx[i])
             => /\ Len(txOut.emitted[i].decoded) = Cardinality(SoundIxs(tx[i]))
                /\ \A k \in SoundIxs(tx[i]) :
                      \E j \in 1..Len(txOut.emitted[i].decoded) :
                         txOut.emitted[i].decoded[j]
                            = DecodeInstruction(tx[i].ixs[k], tx[i].keys, Config)

\* A block whose first transaction throws and whose second holds a malformed
\* instruction before a swap: the swap was decoded and typed.
C26_Witness ==
    /\ txOut.done
    /\ tx = << ThrowingTx, BadIxFirstTx >>
    /\ \E j \in 1..Len(txOut.emitted[2].decoded) : txOut.emitted[2].decoded[j].type = "swap"

(***************************************************************************)
(* C27: the legs when more than two assets change.                         *)
(***************************************************************************)
\* No asset has a nonzero net change below, or above, that of mint.
SmallestNet(t, mint) == \A m \in NonzeroAssets(t) : NetChange(t, mint) <= NetChange(t, m)
LargestNet(t, mint) == \A m \in NonzeroAssets(t) : NetChange(t, mint) >= NetChange(t, m)

\* C27: when more than two assets have a nonzero net change, a record is
\* returned whose input leg is an asset of the smallest signed net change,
\* with the absolute value of that change as its amount, and whose output
\* leg is an asset of the largest signed net change with that change as its
\* amount; the assets in between appear in no leg.
C27_ExtremeLegs ==
    (Diffed /\ Cardinality(NonzeroAssets(tx)) > 2)
        => /\ IsRecord(txOut.out)
           /\ LET legIn == txOut.out.details.inputTransfer
                  legOut == txOut.out.details.outputTransfer
              IN  /\ legIn.token \in NonzeroAssets(tx) /\ SmallestNet(tx, legIn.token)
                  /\ legOut.token \in NonzeroAssets(tx) /\ LargestNet(tx, legOut.token)
                  /\ NearestTo4Digits(legIn.amount, Abs(NetChange(tx, legIn.token)),
                                      legIn.decimals)
                  /\ NearestTo4Digits(legOut.amount, NetChange(tx, legOut.token),
                                      legOut.decimals)

(***************************************************************************)
(* C28: swap records per swap instruction.                                 *)
(***************************************************************************)
\* The instructions of t that are classified as swap.
SwapInstructions(t, cfg) ==
    { k \in 1..Len(t.ixs) :
        /\ ~IxSkipped(t.ixs[k], t.keys) /\ ~IxThrows(t.ixs[k])
        /\ DecodeInstruction(t.ixs[k], t.keys, cfg).type = "swap" }
\* A matched transaction whose balance diff yields a record.
YieldsRecord(t, cfg) ==
    /\ TxSucceeded(t) /\ t.shape = "full"
    /\ RelevantPrograms(t.ixs, t.keys, cfg) # {}
    /\ parseSwapInstruction(t.pre, t.post) # NoSwap
\* The swap records due for a block: one per swap instruction of each such transaction.
RECURSIVE SwapRecordsDue(_, _)
SwapRecordsDue(txs, cfg) ==
    IF txs = << >> THEN 0
    ELSE (IF YieldsRecord(Head(txs), cfg)
          THEN Cardinality(SwapInstructions(Head(txs), cfg)) ELSE 0)
         + SwapRecordsDue(Tail(txs), cfg)

\* One pass over a transaction appends one record per swap instruction, all
\* equal to the record of the transaction's balance diff.
SwapRecordsPerPass ==
    txOut.done =>
        /\ txOut.out.records.swap =
              (IF YieldsRecord(tx, Config) THEN Cardinality(SwapInstructions(tx, Config)) ELSE 0)
        /\ Len(txOut.out.swaps) = txOut.out.records.swap
        /\ \A i \in 1..Len(txOut.out.swaps) :
              txOut.out.swaps[i] = parseSwapInstruction(tx.pre, tx.post)

\* C28: one swap record is appended per qualifying instruction.  Once a
\* slot's block has been processed, the swap records appended for it are
\* exactly one per swap instruction of each matched transaction whose
\* balance diff yields a record, and none before.
C28_OneSwapRecordPerInstruction ==
    \A s \in Slots :
        logs[s].swap = (IF task[s].processed >= 1
                        THEN SwapRecordsDue(BlockAt(s), Config) ELSE 0)

(***************************************************************************)
(* C29: a failing liveness probe.                                          *)
(***************************************************************************)
\* C29: a failing probe only logs.  The step in which the probe fails leaves
\* the process, the subscription and every call as they were; afterwards the
\* slot listener is registered and the timer armed for as long as the
\* process runs, and every new slot still starts its processing.
C29_ProbeFailureNotFatal ==
    [][ /\ (probeFailed' /\ ~probeFailed)
              => /\ exitCode' = exitCode /\ pc' = pc
                 /\ subscribed' = subscribed /\ task' = task
        /\ (probeFailed' /\ exitCode' = -1) => (subscribed' /\ healthTimer')
        /\ (probeFailed /\ exitCode' = -1 /\ chainSlot' = chainSlot + 1)
              => task'[chainSlot'] = NewTask("live") ]_vars

\* After a failed probe the process runs on, subscribed and with its timer,
\* and a slot of the live tail has been processed.
C29_Witness ==
    /\ probeFailed /\ Running
    /\ subscribed /\ healthTimer
    /\ \E s \in Slots : task[s].origin = "live" /\ task[s].processed >= 1

(***************************************************************************)
(* ProgressSpec: the batch loop of processHistoricalBlocks over ranges of  *)
(* up to MaxRange + 1 slots, a batch per step, with the processing of the  *)
(* slots left out: the loop variable and the progress reports only.        *)
(***************************************************************************)
StartSlots == { 0, 1, 95, 100 }

ProgressInit ==
    /\ debug = FALSE
    /\ watchedPrograms = { RaydiumProgram }
    /\ watchProgramId = RaydiumProgram
    /\ startSlot \in StartSlots
    /\ latestSlot \in startSlot..(startSlot + MaxRange)
    /\ currentSlot = startSlot
    /\ chainSlot = 0
    /\ faultsLeft = 0
    /\ blockRecords = [ s \in Slots |-> ZeroLog ]
    /\ tx = NoMetaTx
    /\ txOut = [ done |-> FALSE, out |-> NothingEmitted ]
    /\ pc = "batchDelay"
    /\ attempts = 1
    /\ exitCode = -1
    /\ bfRuns = 1
    /\ progress = {}
    /\ bfResult = "none"
    /\ subscribed = FALSE
    /\ slotUpdateSub = FALSE
    /\ healthTimer = FALSE
    /\ sigintHandler = FALSE
    /\ newestNotified = -1
    /\ task = [ s \in Slots |-> NoTask ]
    /\ bfCalls = [ s \in Slots |-> 0 ]
    /\ liveCalls = [ s \in Slots |-> 0 ]
    /\ logs = [ s \in Slots |-> ZeroLog ]
    /\ errLog = [ s \in Slots |-> 0 ]
    /\ probeFailed = FALSE

\* The end of an iteration: the progress report, currentSlot += BATCH_SIZE
\* and the loop test.
BatchIterationEnds ==
    /\ pc = "batchDelay"
    /\ progress' = ProgressAfterBatch
    /\ currentSlot' = NextBatchStart(currentSlot)
    /\ pc' = IF currentSlot' <= latestSlot THEN "batchDelay" ELSE "live"
    /\ bfResult' = IF currentSlot' <= latestSlot THEN bfResult ELSE "completed"
    /\ UNCHANGED << cfgVars, txVars, subVars, slotVars, chainSlot, attempts, exitCode,
                    newestNotified, probeFailed, bfRuns, latestSlot >>

ProgressNext == BatchIterationEnds
ProgressSpec == ProgressInit /\ [][ProgressNext]_vars

\* Every reported value is a number from 0 to 100 (kept in 1/100 of a percent).
ProgressIsPercentage == \A r \in progress : r.value # NaNValue /\ r.value \in 0..10000
\* A finished backfill of more than 100 slots has reported progress.
ProgressReported ==
    (bfResult = "completed" /\ latestSlot - startSlot + 1 > PROGRESS_EVERY) => progress # {}

\* C30: every backfill over a range of more than 100 slots reports progress
\* at least once, whatever its first slot, and every value reported is a
\* number between 0 and 100, also when the range is a single slot.
C30_ProgressReported == ProgressIsPercentage /\ ProgressReported

(***************************************************************************)
(* CatchSpec: one call of processNewSlot, for slot startSlot, whose every  *)
(* getBlock may return the block or fail with each kind of message; the    *)
(* errors the call has met are kept in txOut.errors.                       *)
(***************************************************************************)
CatchInit ==
    /\ debug \in BOOLEAN
    /\ watchedPrograms = { RaydiumProgram }
    /\ watchProgramId = RaydiumProgram
    /\ startSlot = 0
    /\ chainSlot = 0
    /\ faultsLeft = -1
    /\ blockRecords = BlockRecords(Config)
    /\ tx = NoMetaTx
    /\ txOut = [ done |-> FALSE, out |-> NothingEmitted, errors |-> << >> ]
    /\ InitProcess

\* processNewSlot is called for the slot, by the backfill or by the live tail.
CallProcessNewSlot(origin) ==
    /\ task[startSlot] = NoTask
    /\ task' = [ task EXCEPT ![startSlot] = NewTask(origin) ]
    /\ IF origin = "backfill"
       THEN bfCalls' = [ bfCalls EXCEPT ![startSlot] = @ + 1 ] /\ liveCalls' = liveCalls
       ELSE liveCalls' = [ liveCalls EXCEPT ![startSlot] = @ + 1 ] /\ bfCalls' = bfCalls
    /\ UNCHANGED << cfgVars, txVars, subVars, bfVars, chainSlot, pc, attempts, exitCode,
                    newestNotified, probeFailed, logs, errLog, faultsLeft >>

\* getBlock throws e: the catch of processNewSlot.
GetBlockThrowsError(e) ==
    /\ task[startSlot].pc = "fetching"
    /\ task' = [ task EXCEPT ![startSlot] = Catch(@, e) ]
    /\ errLog' = [ errLog EXCEPT ![startSlot] = @ + CatchErrorLines(task[startSlot], e) ]
    /\ txOut' = [ txOut EXCEPT !.done = TRUE, !.errors = Append(@, e) ]
    /\ UNCHANGED << cfgVars, tx, subVars, bfVars, chainSlot, pc, attempts, exitCode,
                    newestNotified, probeFailed, bfCalls, liveCalls, logs, faultsLeft >>

CatchNext ==
    \/ \E origin \in { "backfill", "live" } : CallProcessNewSlot(origin)
    \/ \E e \in Errors : GetBlockThrowsError(e)
    \/ GetBlockReturnsBlock(startSlot)
    \/ BackoffElapses(startSlot)
CatchSpec == CatchInit /\ [][CatchNext]_vars

\* The message holds both '429' and 'Block not available'.
BothKinds(e) == IsRateLimit(e) /\ IsNotAvailable(e)
ErrorsMet == { txOut.errors[i] : i \in 1..Len(txOut.errors) }

\* C31: the rate-limit test comes before the 'block not available' test.
\* Every error whose message holds '429' is counted as a rate limit, also
\* when it holds 'Block not available' too: a call that met only such errors
\* is never rejected and has logged no error, and after three errors of
\* both kinds the call has returned normally, with no failure outcome.
C31_RateLimitTestFirst ==
    /\ task[startSlot].rateLimits
          = Cardinality({ i \in 1..Len(txOut.errors) : IsRateLimit(txOut.errors[i]) })
    /\ (\A e \in ErrorsMet : IsRateLimit(e))
          => (task[startSlot].pc # "rejected" /\ errLog[startSlot] = 0)
    /\ (/\ Len(txOut.errors) = maxRetries
        /\ \A e \in ErrorsMet : BothKinds(e)
        /\ ~InFlight(task[startSlot]))
          => /\ task[startSlot].pc = "resolved"
             /\ task[startSlot].outcome = "loopEnded"
             /\ task[startSlot].processed = 0

\* Three errors of both kinds, and the call has returned.
C31_Witness ==
    /\ Len(txOut.errors) = maxRetries
    /\ \A e \in ErrorsMet : BothKinds(e)
    /\ task[startSlot].pc = "resolved"

(***************************************************************************)
(* C32: the two legs of a swap record name different assets.               *)
(***************************************************************************)
\* The balance set holds two entries of one asset.
RepeatsAsset(set) ==
    \E i, j \in 1..Len(set) : i # j /\ set[i].mint = set[j].mint

\* C32: in every swap record parseSwapInstruction returns, the input leg's
\* asset differs from the output leg's asset, also when the pre or the post
\* set holds several entries of one asset.
C32_LegsNameDifferentAssets ==
    (txOut.done /\ IsRecord(txOut.out))
        => txOut.out.details.inputTransfer.token # txOut.out.details.outputTransfer.token

\* A record from sets that both hold an asset twice.
C32_Witness ==
    /\ txOut.done /\ IsRecord(txOut.out)
    /\ tx.pre # NoBalances /\ RepeatsAsset(tx.pre)
    /\ tx.post # NoBalances /\ RepeatsAsset(tx.post)

====
